---- MODULE Spec2Model ----
(***************************************************************************)
(* SEO analyzer: the link analyzer (modules/analyzer.py analyze_links),    *)
(* the analysis aggregator (run_full_analysis) and the command line run    *)
(* (cli.py main).  Python strings whose content the code inspects (hrefs,  *)
(* URLs, check names) are sequences of one-character strings.              *)
(***************************************************************************)
EXTENDS Integers, Sequences, FiniteSets, TLC

(***************************************************************************)
(* Bounds of the model.                                                    *)
(***************************************************************************)
MaxAnchors == 2
MaxLimit == 2
MaxChecks == 2

(***************************************************************************)
(* Python values.                                                          *)
(***************************************************************************)
None == <<>>

Range(s) == {s[i] : i \in 1..Len(s)}

Min(a, b) == IF a <= b THEN a ELSE b

\* Python's s[:n] for n >= 0.
Take(s, n) == SubSeq(s, 1, Min(n, Len(s)))

\* Python's s[n:] for n >= 0 (n characters dropped).
Drop(s, n) == SubSeq(s, n + 1, Len(s))

(***************************************************************************)
(* str methods.                                                            *)
(***************************************************************************)
Whitespace == {" ", "\t", "\n", "\r"}

UpperChars == <<"A","B","C","D","E","F","G","H","I","J","K","L","M",
                "N","O","P","Q","R","S","T","U","V","W","X","Y","Z">>

LowerChars == <<"a","b","c","d","e","f","g","h","i","j","k","l","m",
                "n","o","p","q","r","s","t","u","v","w","x","y","z">>

Digits == {"0","1","2","3","4","5","6","7","8","9"}

UpperSet == Range(UpperChars)

LowerChar(c) ==
  IF c \in UpperSet
    THEN LowerChars[CHOOSE i \in 1..Len(UpperChars) : UpperChars[i] = c]
    ELSE c

\* str.lower()
Lower(s) == [i \in 1..Len(s) |-> LowerChar(s[i])]

RECURSIVE LStrip(_)
LStrip(s) ==
  IF s # <<>> /\ Head(s) \in Whitespace THEN LStrip(Tail(s)) ELSE s

RECURSIVE RStrip(_)
RStrip(s) ==
  IF s # <<>> /\ s[Len(s)] \in Whitespace
    THEN RStrip(SubSeq(s, 1, Len(s) - 1))
    ELSE s

\* str.strip()
Strip(s) == RStrip(LStrip(s))

\* str.startswith(p)
StartsWith(s, p) == Len(s) >= Len(p) /\ SubSeq(s, 1, Len(p)) = p

\* str.find(c) for a one-character c: the 0-based index, -1 when absent.
RECURSIVE FindFrom(_, _, _)
FindFrom(s, c, k) ==
  IF k >= Len(s) THEN -1
  ELSE IF s[k + 1] = c THEN k
  ELSE FindFrom(s, c, k + 1)

Find(s, c) == FindFrom(s, c, 0)

\* str.split(c) for a one-character separator.
RECURSIVE Split(_, _)
Split(s, c) ==
  LET i == Find(s, c)
  IN  IF i < 0 THEN <<s>> ELSE <<Take(s, i)>> \o Split(Drop(s, i + 1), c)

\* c.join(parts)
RECURSIVE Join(_, _)
Join(parts, c) ==
  IF parts = <<>> THEN <<>>
  ELSE IF Len(parts) = 1 THEN parts[1]
  ELSE parts[1] \o <<c>> \o Join(Tail(parts), c)

(***************************************************************************)
(* urllib.parse, as analyze_links uses it.                                 *)
(***************************************************************************)
Letters == UpperSet \cup Range(LowerChars)

SchemeChars == Letters \cup Digits \cup {"+", "-", "."}

S_http == <<"h","t","t","p">>
S_https == <<"h","t","t","p","s">>
S_ftp == <<"f","t","p">>

\* The schemes of this model's alphabet that urllib lists in uses_relative
\* and uses_netloc ("" is the scheme-less reference).
UsesRelative == {<<>>, S_http, S_https, S_ftp}
UsesNetloc == {<<>>, S_http, S_https, S_ftp}

\* The first index (0-based) from position `from` of one of "/", "?", "#",
\* or len(url): urllib's _splitnetloc.
RECURSIVE NetlocEnd(_, _)
NetlocEnd(url, from) ==
  IF from >= Len(url) \/ url[from + 1] \in {"/", "?", "#"}
    THEN from
    ELSE NetlocEnd(url, from + 1)

\* urlsplit(url, scheme=default): [scheme, netloc, path, query, fragment].
UrlSplit(url0, default) ==
  LET i == Find(url0, ":")
      hasScheme == /\ i > 0
                   /\ url0[1] \in Letters
                   /\ \A k \in 1..i : url0[k] \in SchemeChars
      scheme == IF hasScheme THEN Lower(Take(url0, i)) ELSE default
      url1 == IF hasScheme THEN Drop(url0, i + 1) ELSE url0
      hasNetloc == StartsWith(url1, <<"/", "/">>)
      e == NetlocEnd(url1, 2)
      netloc == IF hasNetloc THEN SubSeq(url1, 3, e) ELSE <<>>
      url2 == IF hasNetloc THEN Drop(url1, e) ELSE url1
      f == Find(url2, "#")
      fragment == IF f >= 0 THEN Drop(url2, f + 1) ELSE <<>>
      url3 == IF f >= 0 THEN Take(url2, f) ELSE url2
      q == Find(url3, "?")
      query == IF q >= 0 THEN Drop(url3, q + 1) ELSE <<>>
      path == IF q >= 0 THEN Take(url3, q) ELSE url3
  IN  [scheme |-> scheme, netloc |-> netloc, path |-> path,
       query |-> query, fragment |-> fragment]

\* urlparse(url).netloc
Netloc(url) == UrlSplit(url, <<>>).netloc

\* urlparse(url).scheme
Scheme(url) == UrlSplit(url, <<>>).scheme

\* The host of a URL: its network location without userinfo and port, in
\* lower case: urlparse(url).hostname.
Hostname(url) ==
  LET hostport == Split(Netloc(url), "@")[Len(Split(Netloc(url), "@"))]
  IN  Lower(IF Find(hostport, ":") < 0 THEN hostport ELSE Take(hostport, Find(hostport, ":")))

\* urlunsplit
UrlUnsplit(scheme, netloc, path, query, fragment) ==
  LET u1 == IF netloc # <<>>
                 \/ (scheme # <<>> /\ scheme \in UsesNetloc
                     /\ ~StartsWith(path, <<"/", "/">>))
              THEN <<"/", "/">> \o netloc
                   \o (IF path # <<>> /\ Head(path) # "/" THEN <<"/">> ELSE <<>>)
                   \o path
              ELSE path
      u2 == IF scheme # <<>> THEN scheme \o <<":">> \o u1 ELSE u1
      u3 == IF query # <<>> THEN u2 \o <<"?">> \o query ELSE u2
  IN  IF fragment # <<>> THEN u3 \o <<"#">> \o fragment ELSE u3

\* filter(None, segments[1:-1]) put back between the first and last segment.
DropEmptyInner(segs) ==
  IF Len(segs) <= 2 THEN segs
  ELSE <<segs[1]>>
       \o SelectSeq(SubSeq(segs, 2, Len(segs) - 1), LAMBDA x : x # <<>>)
       \o <<segs[Len(segs)]>>

\* The dot-segment loop of urljoin.
RECURSIVE ResolveDots(_, _)
ResolveDots(segs, acc) ==
  IF segs = <<>> THEN acc
  ELSE LET seg == Head(segs)
       IN  IF seg = <<".", ".">>
             THEN ResolveDots(Tail(segs),
                              IF acc = <<>> THEN acc ELSE SubSeq(acc, 1, Len(acc) - 1))
           ELSE IF seg = <<".">>
             THEN ResolveDots(Tail(segs), acc)
           ELSE ResolveDots(Tail(segs), Append(acc, seg))

\* bpath.split('/') without its last segment unless that is empty.
BaseParts(parts) ==
  IF parts[Len(parts)] # <<>> THEN SubSeq(parts, 1, Len(parts) - 1) ELSE parts

\* The segments of the merged path, before the dot-segment loop.
Segments(bpath, path) ==
  IF Head(path) = "/"
    THEN Split(path, "/")
    ELSE DropEmptyInner(BaseParts(Split(bpath, "/")) \o Split(path, "/"))

\* The resolved path of the segments: a trailing "." or ".." leaves a
\* trailing "/", and an empty result is "/".
OrRoot(path) == IF path = <<>> THEN <<"/">> ELSE path

ResolvedPath(segments) ==
  OrRoot(Join(IF segments[Len(segments)] \in {<<".">>, <<".", ".">>}
                THEN Append(ResolveDots(segments, <<>>), <<>>)
                ELSE ResolveDots(segments, <<>>),
              "/"))

\* urljoin once base and url are split (b, u) and both are nonempty.
UrlJoinSplit(b, u, url) ==
  IF u.scheme # b.scheme \/ u.scheme \notin UsesRelative THEN url
  ELSE IF u.scheme \in UsesNetloc /\ u.netloc # <<>>
    THEN UrlUnsplit(u.scheme, u.netloc, u.path, u.query, u.fragment)
  ELSE IF u.path = <<>>
    THEN UrlUnsplit(u.scheme,
                    IF u.scheme \in UsesNetloc THEN b.netloc ELSE u.netloc,
                    b.path,
                    IF u.query = <<>> THEN b.query ELSE u.query,
                    u.fragment)
  ELSE UrlUnsplit(u.scheme,
                  IF u.scheme \in UsesNetloc THEN b.netloc ELSE u.netloc,
                  ResolvedPath(Segments(b.path, u.path)),
                  u.query, u.fragment)

\* urljoin(base, url)
UrlJoin(base, url) ==
  IF base = <<>> THEN url
  ELSE IF url = <<>> THEN base
  ELSE UrlJoinSplit(UrlSplit(base, <<>>),
                    UrlSplit(url, UrlSplit(base, <<>>).scheme), url)

(***************************************************************************)
(* Optional values: Python's None and a present value.                     *)
(***************************************************************************)
Some(x) == <<x>>

Val(o) == o[1]

\* The lists of a container that keeps one repeated entry: the elements of
\* S in any order, one of them twice.
ListsOf_Repeating(S) ==
  IF S = {} THEN {<<>>}
  ELSE {s \in [1..Cardinality(S) + 1 -> S] : \A x \in S : \E i \in DOMAIN s : s[i] = x}

\* All the lists a Python set can enumerate to: its elements once each, in
\* any order (string hashing is randomized per process).
ListsOf(S) ==
  {s \in [1..Cardinality(S) -> S] : \A i, j \in 1..Cardinality(S) : s[i] = s[j] => i = j}

(***************************************************************************)
(* Inputs: base URLs, the href values of a page's anchors, pages.          *)
(***************************************************************************)
U_site == <<"h","t","t","p","s",":","/","/","s",".","c","o","/","a","/","b">>
U_other == <<"h","t","t","p",":","/","/","t",".","c","o">>

BaseUrls == {U_site, U_other}

H_fragment == <<"#","t">>
H_mailto == <<" ","m","a","i","l","t","o",":","x">>
H_javascript == <<"j","a","v","a","s","c","r","i","p","t",":","v">>
H_root == <<"/","p">>
H_relative == <<"q">>
H_schemerel == <<"/","/","t",".","c","o","/","x">>
H_same == <<"h","t","t","p","s",":","/","/","s",".","c","o","/","p">>
H_other == <<"h","t","t","p","s",":","/","/","t",".","c","o","/","x"," ">>
H_port == <<"h","t","t","p","s",":","/","/","s",".","c","o",":","4","4","3","/","p">>
H_empty == <<>>

Hrefs == {H_fragment, H_mailto, H_javascript, H_root, H_relative, H_schemerel,
          H_same, H_other, H_port, H_empty}

\* An <a> element is its href attribute: None when it has none.
AnchorsOf(hrefs) == [i \in 1..Len(hrefs) |-> Some(hrefs[i])]

SeqsUpTo(S, n) == UNION {[1..k -> S] : k \in 0..n}

\* A page as the DOM provider shows it: the <a> elements, the <img>
\* elements, title, meta description, headings and the visible words.
\* blank: the page text is the empty string.
PageOf(hrefs) ==
  [blank |-> FALSE, title |-> <<>>, meta_description |-> <<>>, h1 |-> <<>>,
   h2 |-> <<>>, words |-> 0, anchors |-> AnchorsOf(hrefs), imgs |-> <<>>]

LinkPages == {PageOf(h) : h \in SeqsUpTo(Hrefs, MaxAnchors)}

\* The page of the end-to-end scenario: an anchor without href, a fragment
\* link, a root-relative link and an absolute link; two images.
SamplePage ==
  [blank |-> FALSE, title |-> <<" ","A","b"," ">>, meta_description |-> <<"d">>,
   h1 |-> <<<<"H"," ">>>>, h2 |-> <<>>, words |-> 3,
   anchors |-> <<None, Some(H_fragment), Some(H_root), Some(H_other)>>,
   imgs |-> <<[src |-> Some(<<"/","i">>), alt |-> None],
              [src |-> Some(<<"h","t","t","p",":","/","/","t",".","c","o","/","j">>), alt |-> Some(<<" ","a"," ">>)]>>]

\* The empty page text "".
BlankPage ==
  [blank |-> TRUE, title |-> <<>>, meta_description |-> <<>>, h1 |-> <<>>,
   h2 |-> <<>>, words |-> 0, anchors |-> <<>>, imgs |-> <<>>]

SamplePages == {SamplePage, BlankPage}

(***************************************************************************)
(* Check names and the `checks` argument.                                  *)
(***************************************************************************)
N_basic == <<"b","a","s","i","c">>
N_wordcount == <<"w","o","r","d","c","o","u","n","t">>
N_links == <<"l","i","n","k","s">>
N_images == <<"i","m","a","g","e","s">>
N_security == <<"s","e","c","u","r","i","t","y">>
N_performance == <<"p","e","r","f","o","r","m","a","n","c","e">>

\* Line 201: the default selection.
AllChecks == <<N_basic, N_wordcount, N_links, N_images, N_security, N_performance>>

\* The result key each check name writes (lines 207-223).
FieldOf(name) ==
  CASE name = N_basic -> "basic"
    [] name = N_wordcount -> "word_count"
    [] name = N_links -> "links"
    [] name = N_images -> "images"
    [] name = N_security -> "security"
    [] name = N_performance -> "performance"

\* The names a caller may write between the commas: padded, in upper case,
\* unknown, empty.
RawTokens == {N_basic, N_wordcount, <<" ","L","i","n","k","s">>, N_images, <<"S","E","C","U","R","I","T","Y"," ">>,
              N_performance, <<"s","e","o">>, <<>>}

\* The `checks` argument: None, a comma-separated str, or a list of str.
ChecksArgs ==
  {[type |-> "NoneType", value |-> <<>>]}
    \cup {[type |-> "str", value |-> Join(t, ",")] : t \in SeqsUpTo(RawTokens, MaxChecks)}
    \cup {[type |-> "list", value |-> t] : t \in SeqsUpTo(RawTokens, MaxChecks)}

\* What argparse hands to main: --checks is a str, None when not given.
CliChecksArgs == {c \in ChecksArgs : c.type # "list"}

(***************************************************************************)
(* The network: what one request can end in.                               *)
(***************************************************************************)
\* The status codes on the two sides of the comparison of line 107.
StatusCodes == {399, 400}

\* raises: the request ended in an exception (timeout, DNS, refused, ...).
Responses ==
  {[raises |-> FALSE, status_code |-> c] : c \in StatusCodes}
    \cup {[raises |-> TRUE, status_code |-> 0]}

(***************************************************************************)
(* analyze_links: the classification of one href.                          *)
(***************************************************************************)
P_mailto == <<"m","a","i","l","t","o",":">>
P_javascript == <<"j","a","v","a","s","c","r","i","p","t",":">>
P_hash == <<"#">>
P_http == <<"h","t","t","p",":","/","/">>
P_https == <<"h","t","t","p","s",":","/","/">>

\* soup.find_all("a", href=True): the href values, in document order.
RECURSIVE FindAllHref(_)
FindAllHref(elems) ==
  IF elems = <<>> THEN <<>>
  ELSE IF Head(elems) = None THEN FindAllHref(Tail(elems))
  ELSE <<Val(Head(elems))>> \o FindAllHref(Tail(elems))

IsIgnored(href) ==
  StartsWith(href, P_mailto) \/ StartsWith(href, P_javascript) \/ StartsWith(href, P_hash)

IsAbsolute(href) == StartsWith(href, P_http) \/ StartsWith(href, P_https)

\* The loop, were it to compare hosts (without port, in lower case) instead
\* of network locations.
Classify_ByHostname(base_url, raw) ==
  IF IsIgnored(Strip(raw)) THEN [kind |-> "ignored", url |-> Strip(raw)]
  ELSE IF IsAbsolute(Strip(raw))
    THEN IF Hostname(Strip(raw)) = Hostname(base_url)
           THEN [kind |-> "internal", url |-> Strip(raw)]
           ELSE [kind |-> "external", url |-> Strip(raw)]
  ELSE [kind |-> "internal", url |-> UrlJoin(base_url, Strip(raw))]

\* The loop, were it to classify a resolved href by its network location.
Classify_ResolvedByNetloc(base_url, raw) ==
  IF IsIgnored(Strip(raw)) THEN [kind |-> "ignored", url |-> Strip(raw)]
  ELSE IF IsAbsolute(Strip(raw))
    THEN IF Netloc(Strip(raw)) = Netloc(base_url)
           THEN [kind |-> "internal", url |-> Strip(raw)]
           ELSE [kind |-> "external", url |-> Strip(raw)]
  ELSE IF Netloc(UrlJoin(base_url, Strip(raw))) = Netloc(base_url)
    THEN [kind |-> "internal", url |-> UrlJoin(base_url, Strip(raw))]
  ELSE [kind |-> "external", url |-> UrlJoin(base_url, Strip(raw))]

\* The loop, were it to test the prefixes on the href before trimming it.
Classify_IgnoreRaw(base_url, raw) ==
  IF IsIgnored(raw) THEN [kind |-> "ignored", url |-> Strip(raw)]
  ELSE IF IsAbsolute(Strip(raw))
    THEN IF Netloc(Strip(raw)) = Netloc(base_url)
           THEN [kind |-> "internal", url |-> Strip(raw)]
           ELSE [kind |-> "external", url |-> Strip(raw)]
  ELSE [kind |-> "internal", url |-> UrlJoin(base_url, Strip(raw))]

\* One iteration of the loop over the anchors: which set the href goes to,
\* and the URL stored there.
Classify(base_url, raw) ==
  LET href == Strip(raw)
      base_domain == Netloc(base_url)
  IN  IF IsIgnored(href) THEN [kind |-> "ignored", url |-> href]
      ELSE IF IsAbsolute(href)
        THEN IF Netloc(href) = base_domain
               THEN [kind |-> "internal", url |-> href]
               ELSE [kind |-> "external", url |-> href]
      ELSE [kind |-> "internal", url |-> UrlJoin(base_url, href)]

\* The sets the loop leaves in `internal` and `external`.
InternalSet(base_url, hrefs) ==
  {Classify(base_url, hrefs[i]).url :
     i \in {j \in 1..Len(hrefs) : Classify(base_url, hrefs[j]).kind = "internal"}}

ExternalSet(base_url, hrefs) ==
  {Classify(base_url, hrefs[i]).url :
     i \in {j \in 1..Len(hrefs) : Classify(base_url, hrefs[j]).kind = "external"}}

\* check_url, were line 107 to compare with > 400.
check_url_Above400(resp) ==
  IF resp.raises THEN [raised |-> FALSE, ok |-> FALSE, code |-> None]
  ELSE IF resp.status_code > 400
    THEN [raised |-> FALSE, ok |-> FALSE, code |-> Some(resp.status_code)]
  ELSE [raised |-> FALSE, ok |-> TRUE, code |-> Some(resp.status_code)]

\* check_url, given what requests.head ended in: (ok, code), code None when
\* no response came.  raised: an exception leaves check_url.
check_url(resp) ==
  IF resp.raises THEN [raised |-> FALSE, ok |-> FALSE, code |-> None]
  ELSE IF resp.status_code >= 400
    THEN [raised |-> FALSE, ok |-> FALSE, code |-> Some(resp.status_code)]
  ELSE [raised |-> FALSE, ok |-> TRUE, code |-> Some(resp.status_code)]

\* The probe loops, were they to run over the whole list.
ProbedPrefix_Whole(list, limit) == list

\* The probe loops, were they to run over list[-max_check_links:].
ProbedPrefix_Last(list, limit) == Drop(list, Len(list) - Min(Len(list), limit))

\* list[:max_check_links]
ProbedPrefix(list, limit) == Take(list, limit)

NoResult ==
  [total_links_on_page |-> 0, internal_links |-> <<>>, external_links |-> <<>>,
   broken_internal |-> <<>>, broken_external |-> <<>>]

(***************************************************************************)
(* The other analyzers.                                                    *)
(***************************************************************************)
DefaultMaxCheckLinks == 50

MaxExamples == 10

\* analyze_basic
analyze_basic(page) ==
  [title |-> Strip(page.title),
   title_length |-> Len(Strip(page.title)),
   meta_description |-> Strip(page.meta_description),
   meta_description_length |-> Len(Strip(page.meta_description)),
   h1 |-> [k \in 1..Len(page.h1) |-> Strip(page.h1[k])],
   h2 |-> [k \in 1..Len(page.h2) |-> Strip(page.h2[k])]]

\* analyze_word_count: the words of the visible text.
analyze_word_count(page) == page.words

\* img.get(name) or ""
AttrOrEmpty(attr) == IF attr = None THEN <<>> ELSE Val(attr)

\* Lines 141-144: the alt and the src of one image.
ImageOf(img, base) ==
  [src |-> IF AttrOrEmpty(img.src) # <<>> /\ base # <<>>
                /\ ~StartsWith(AttrOrEmpty(img.src), S_http)
             THEN UrlJoin(base, AttrOrEmpty(img.src))
             ELSE AttrOrEmpty(img.src),
   alt |-> Strip(AttrOrEmpty(img.alt))]

ImagesOf(page, base) == [k \in 1..Len(page.imgs) |-> ImageOf(page.imgs[k], base)]

SrcOf(images) == [k \in 1..Len(images) |-> images[k].src]

\* analyze_images
analyze_images(page, base) ==
  [total_images |-> Len(page.imgs),
   missing_alt_count |->
     Len(SelectSeq(ImagesOf(page, base), LAMBDA x : x.alt = <<>>)),
   missing_alt_examples |->
     Take(SrcOf(SelectSeq(ImagesOf(page, base), LAMBDA x : x.alt = <<>>)), MaxExamples),
   examples |-> Take(ImagesOf(page, base), MaxExamples)]

\* What a GET can end in: a response, or an exception with its message.
GetResponses ==
  {[raises |-> FALSE, status_code |-> 200, message |-> ""],
   [raises |-> TRUE, status_code |-> 0, message |-> "timed out"]}

\* The headers of a response.
HeadersOf(resp) == [Server |-> "nginx"]

\* analyze_security without its try/except.
analyze_security_Uncaught(url, resp) ==
  IF resp.raises
    THEN [raised |-> TRUE,
          value |-> [https |-> FALSE, status_code |-> None, headers |-> <<>>,
                     error |-> None]]
    ELSE [raised |-> FALSE,
          value |-> [https |-> (Scheme(url) = S_https),
                     status_code |-> Some(resp.status_code),
                     headers |-> HeadersOf(resp),
                     error |-> None]]

\* analyze_security, given what requests.get ended in.
analyze_security(url, resp) ==
  IF resp.raises
    THEN [raised |-> FALSE,
          value |-> [https |-> FALSE, status_code |-> None, headers |-> <<>>,
                     error |-> Some(resp.message)]]
    ELSE [raised |-> FALSE,
          value |-> [https |-> (Scheme(url) = S_https),
                     status_code |-> Some(resp.status_code),
                     headers |-> HeadersOf(resp),
                     error |-> None]]

\* The two durations measured around a download, in milliseconds.
FirstByteMs == 120
TotalMs == 340

\* analyze_performance_simple, given what the streamed GET (the request or
\* the download of its content) ended in.
analyze_performance_simple(url, resp) ==
  IF resp.raises
    THEN [raised |-> FALSE,
          value |-> [time_to_first_byte |-> None, total_download |-> None,
                     status_code |-> None, error |-> Some(resp.message)]]
    ELSE [raised |-> FALSE,
          value |-> [time_to_first_byte |-> Some(FirstByteMs),
                     total_download |-> Some(TotalMs),
                     status_code |-> Some(resp.status_code),
                     error |-> None]]

(***************************************************************************)
(* run_full_analysis: the selection.                                       *)
(***************************************************************************)
\* Python's truth value of the argument.
Truthy(arg) == arg.type # "NoneType" /\ arg.value # <<>>

StripLower(list) == [k \in 1..Len(list) |-> Lower(Strip(list[k]))]

StripOnly(list) == [k \in 1..Len(list) |-> Strip(list[k])]

\* Lines 195-201 without .lower().
NormalizeChecks_NoLower(arg) ==
  IF Truthy(arg)
    THEN IF arg.type = "str"
           THEN StripOnly(Split(arg.value, ","))
           ELSE StripOnly(arg.value)
    ELSE AllChecks

\* Lines 195-201, were line 195 to test `checks is not None`.
NormalizeChecks_NotNone(arg) ==
  IF arg.type # "NoneType"
    THEN IF arg.type = "str"
           THEN StripLower(Split(arg.value, ","))
           ELSE StripLower(arg.value)
    ELSE AllChecks

\* Lines 195-201.
NormalizeChecks(arg) ==
  IF Truthy(arg)
    THEN IF arg.type = "str"
           THEN StripLower(Split(arg.value, ","))
           ELSE StripLower(arg.value)
    ELSE AllChecks

\* name in checks
Selected(name, list) == name \in Range(list)

\* d[k] = v
DictSet(d, k, v) == (k :> v) @@ d

Timestamps == {1762300800}

(***************************************************************************)
(* cli.py: the report.                                                     *)
(***************************************************************************)
ReportFormats == {"console", "json", "html", "pdf"}

\* The methods class ReportGenerator defines.
ReportGeneratorMethods == {"__init__", "print_terminal_summary", "export", "_build_html"}

ResultKeys == <<"basic", "word_count", "links", "images", "security", "performance">>

\* format_results_to_text: the sections of the text, in order.
format_results_to_text(res) == SelectSeq(ResultKeys, LAMBDA k : k \in DOMAIN res)

\* fetch_page: the text, or None after a RequestException.
fetch_page(out) == IF out.raises THEN None ELSE Some(out.page)

FetchOutcomes ==
  {[raises |-> TRUE, page |-> BlankPage]}
    \cup {[raises |-> FALSE, page |-> p] : p \in SamplePages}

VARIABLES
  entry,            \* the function the caller entered
  pc,               \* the statement the run is at
  base_url,         \* the URL argument
  html,             \* the page (None before a fetch, and after a failed one)
  checks_arg,       \* the checks argument as the caller gave it
  max_check_links,  \* analyze_links' limit
  checks,           \* run_full_analysis' normalized selection
  results,          \* run_full_analysis' result dict
  result,           \* analyze_links' result dict
  i,                \* the position of the running probe loop in its slice
  net,              \* every network request issued, in order, with its outcome
  executed,         \* the analyzers run_full_analysis has called, in order
  report,           \* what main wrote, None before
  raised            \* the exception that left the run uncaught, or None

vars == <<entry, pc, base_url, html, checks_arg, max_check_links, checks, results,
          result, i, net, executed, report, raised>>

args == <<entry, base_url, checks_arg>>

InitCommon ==
  /\ base_url \in BaseUrls
  /\ checks = <<>>
  /\ results = <<>>
  /\ result = NoResult
  /\ i = 0
  /\ net = <<>>
  /\ executed = <<>>
  /\ report = None
  /\ raised = None

\* A caller of analyze_links(html, base_url, max_check_links).
InitLinks ==
  /\ entry = "analyze_links"
  /\ pc = "links_extract"
  /\ html \in {Some(p) : p \in LinkPages}
  /\ checks_arg = [type |-> "NoneType", value |-> <<>>]
  /\ max_check_links \in 0..MaxLimit
  /\ InitCommon

\* A caller of run_full_analysis(html, base_url, checks).
InitAnalysis ==
  /\ entry = "run_full_analysis"
  /\ pc = "rfa_start"
  /\ html \in {Some(p) : p \in SamplePages}
  /\ checks_arg \in ChecksArgs
  /\ max_check_links = DefaultMaxCheckLinks
  /\ InitCommon

\* The command line: main.
InitMain ==
  /\ entry = "main"
  /\ pc = "main_fetch"
  /\ html = None
  /\ checks_arg \in CliChecksArgs
  /\ max_check_links = DefaultMaxCheckLinks
  /\ InitCommon

Init == InitLinks \/ InitAnalysis \/ InitMain

(***************************************************************************)
(* analyze_links.                                                          *)
(***************************************************************************)
\* Lines 70-100: parse, classify every anchor, build the result dict.
LinksExtract ==
  /\ pc = "links_extract"
  /\ \E il \in ListsOf(InternalSet(base_url, FindAllHref(Val(html).anchors))),
        el \in ListsOf(ExternalSet(base_url, FindAllHref(Val(html).anchors))) :
       result' = [total_links_on_page |-> Len(FindAllHref(Val(html).anchors)),
                  internal_links |-> il,
                  external_links |-> el,
                  broken_internal |-> <<>>,
                  broken_external |-> <<>>]
  /\ pc' = "probe_internal"
  /\ i' = 0
  /\ UNCHANGED <<args, html, max_check_links, checks, results, net, executed,
                 report, raised>>

\* One iteration of a probe loop over result[field], appending to
\* result[broken].
ProbeStep(field, broken) ==
  /\ i < Len(ProbedPrefix(result[field], max_check_links))
  /\ \E resp \in Responses :
       /\ net' = Append(net, [call |-> field,
                              url |-> ProbedPrefix(result[field], max_check_links)[i + 1],
                              resp |-> resp,
                              raised |-> check_url(resp).raised,
                              ok |-> check_url(resp).ok,
                              code |-> check_url(resp).code])
       /\ IF check_url(resp).raised
            THEN /\ raised' = Some("Exception")
                 /\ pc' = "uncaught"
                 /\ UNCHANGED <<result, i>>
            ELSE /\ result' =
                      IF check_url(resp).ok THEN result
                      ELSE [result EXCEPT ![broken] =
                              Append(@, [url |-> ProbedPrefix(result[field],
                                                              max_check_links)[i + 1],
                                         status |-> check_url(resp).code])]
                 /\ i' = i + 1
                 /\ UNCHANGED <<pc, raised>>
  /\ UNCHANGED <<args, html, max_check_links, checks, results, executed, report>>

\* Lines 114-117.
ProbeInternal ==
  /\ pc = "probe_internal"
  /\ ProbeStep("internal_links", "broken_internal")

ProbeInternalEnd ==
  /\ pc = "probe_internal"
  /\ i = Len(ProbedPrefix(result.internal_links, max_check_links))
  /\ pc' = "probe_external"
  /\ i' = 0
  /\ UNCHANGED <<args, html, max_check_links, checks, results, result, net,
                 executed, report, raised>>

\* Lines 119-122.
ProbeExternal ==
  /\ pc = "probe_external"
  /\ ProbeStep("external_links", "broken_external")

ProbeExternalEnd ==
  /\ pc = "probe_external"
  /\ i = Len(ProbedPrefix(result.external_links, max_check_links))
  /\ pc' = "links_return"
  /\ i' = 0
  /\ UNCHANGED <<args, html, max_check_links, checks, results, result, net,
                 executed, report, raised>>

\* Line 124, and line 214 when run_full_analysis is the caller.
LinksReturn ==
  /\ pc = "links_return"
  /\ IF entry = "analyze_links"
       THEN /\ pc' = "done"
            /\ UNCHANGED results
       ELSE /\ pc' = "rfa_images"
            /\ results' = DictSet(results, "links", result)
  /\ UNCHANGED <<args, html, max_check_links, checks, result, i, net, executed,
                 report, raised>>

(***************************************************************************)
(* run_full_analysis.                                                      *)
(***************************************************************************)
\* Lines 195-205.
AnalysisStart ==
  /\ pc = "rfa_start"
  /\ checks' = NormalizeChecks(checks_arg)
  /\ \E now \in Timestamps :
       results' = DictSet(DictSet(DictSet(<<>>, "url", base_url), "timestamp", now),
                          "checks_run", NormalizeChecks(checks_arg))
  /\ pc' = "rfa_basic"
  /\ UNCHANGED <<args, html, max_check_links, result, i, net, executed, report, raised>>

\* Lines 207-208, were the security check to run ahead of the basic check
\* when it is selected.
AnalysisBasic_SecurityFirst ==
  /\ pc = "rfa_basic"
  /\ IF Selected(N_security, checks) /\ ~Selected(N_security, executed)
       THEN /\ \E resp \in GetResponses :
                 /\ net' = Append(net, [call |-> "security", url |-> base_url,
                                        resp |-> resp])
                 /\ results' = DictSet(results, "security",
                                       analyze_security(base_url, resp).value)
            /\ executed' = Append(executed, N_security)
            /\ UNCHANGED pc
       ELSE /\ IF Selected(N_basic, checks)
                 THEN /\ results' = DictSet(results, "basic", analyze_basic(Val(html)))
                      /\ executed' = Append(executed, N_basic)
                 ELSE UNCHANGED <<results, executed>>
            /\ pc' = "rfa_wordcount"
            /\ UNCHANGED net
  /\ UNCHANGED <<args, html, max_check_links, checks, result, i, report, raised>>

\* Lines 207-208.
AnalysisBasic ==
  /\ pc = "rfa_basic"
  /\ IF Selected(N_basic, checks)
       THEN /\ results' = DictSet(results, "basic", analyze_basic(Val(html)))
            /\ executed' = Append(executed, N_basic)
       ELSE UNCHANGED <<results, executed>>
  /\ pc' = "rfa_wordcount"
  /\ UNCHANGED <<args, html, max_check_links, checks, result, i, net, report, raised>>

\* Lines 210-211.
AnalysisWordCount ==
  /\ pc = "rfa_wordcount"
  /\ IF Selected(N_wordcount, checks)
       THEN /\ results' = DictSet(results, "word_count", analyze_word_count(Val(html)))
            /\ executed' = Append(executed, N_wordcount)
       ELSE UNCHANGED <<results, executed>>
  /\ pc' = "rfa_links"
  /\ UNCHANGED <<args, html, max_check_links, checks, result, i, net, report, raised>>

\* Lines 213-214: the call of analyze_links(html_input, base_url).
AnalysisLinks ==
  /\ pc = "rfa_links"
  /\ IF Selected(N_links, checks)
       THEN /\ pc' = "links_extract"
            /\ max_check_links' = DefaultMaxCheckLinks
            /\ executed' = Append(executed, N_links)
       ELSE /\ pc' = "rfa_images"
            /\ UNCHANGED <<max_check_links, executed>>
  /\ UNCHANGED <<args, html, checks, results, result, i, net, report, raised>>

\* Lines 216-217.
AnalysisImages ==
  /\ pc = "rfa_images"
  /\ IF Selected(N_images, checks)
       THEN /\ results' = DictSet(results, "images", analyze_images(Val(html), base_url))
            /\ executed' = Append(executed, N_images)
       ELSE UNCHANGED <<results, executed>>
  /\ pc' = "rfa_security"
  /\ UNCHANGED <<args, html, max_check_links, checks, result, i, net, report, raised>>

\* A check that issues one GET: lines 219-220 and 222-223.
NetworkCheck(name, key, r, resp, next) ==
  /\ net' = Append(net, [call |-> key, url |-> base_url, resp |-> resp])
  /\ executed' = Append(executed, name)
  /\ IF r.raised
       THEN /\ raised' = Some("Exception")
            /\ pc' = "uncaught"
            /\ UNCHANGED results
       ELSE /\ results' = DictSet(results, key, r.value)
            /\ pc' = next
            /\ UNCHANGED raised

AnalysisSecurity ==
  /\ pc = "rfa_security"
  /\ IF Selected(N_security, checks)
       THEN \E resp \in GetResponses :
              NetworkCheck(N_security, "security", analyze_security(base_url, resp),
                           resp, "rfa_performance")
       ELSE /\ pc' = "rfa_performance"
            /\ UNCHANGED <<results, net, executed, raised>>
  /\ UNCHANGED <<args, html, max_check_links, checks, result, i, report>>

AnalysisPerformance ==
  /\ pc = "rfa_performance"
  /\ IF Selected(N_performance, checks)
       THEN \E resp \in GetResponses :
              NetworkCheck(N_performance, "performance",
                           analyze_performance_simple(base_url, resp), resp, "rfa_return")
       ELSE /\ pc' = "rfa_return"
            /\ UNCHANGED <<results, net, executed, raised>>
  /\ UNCHANGED <<args, html, max_check_links, checks, result, i, report>>

\* Line 225, and cli.py line 137 when main is the caller.
AnalysisReturn ==
  /\ pc = "rfa_return"
  /\ pc' = IF entry = "main" THEN "main_report" ELSE "done"
  /\ UNCHANGED <<args, html, max_check_links, checks, results, result, i, net,
                 executed, report, raised>>

(***************************************************************************)
(* cli.py main.                                                            *)
(***************************************************************************)
\* Lines 129-137: the fetch; sys.exit(1) when it gave nothing.
MainFetch ==
  /\ pc = "main_fetch"
  /\ \E out \in FetchOutcomes :
       /\ html' = fetch_page(out)
       /\ net' = Append(net, [call |-> "fetch_page", url |-> base_url, resp |-> out])
       /\ pc' = IF fetch_page(out) = None \/ Val(fetch_page(out)).blank
                  THEN "exit_1"
                  ELSE "rfa_start"
  /\ UNCHANGED <<args, max_check_links, checks, results, result, i, executed,
                 report, raised>>

\* Lines 142-166: the report in the format of --report, to --output (a
\* path that can be written).  io_ok: pdfkit succeeded.
MainReport ==
  /\ pc = "main_report"
  /\ \E format \in ReportFormats, output \in {None, Some("out")}, pretty \in BOOLEAN,
        io_ok \in BOOLEAN :
       CASE format = "console" ->
              /\ report' = Some([format |-> format, to |-> "stdout",
                                 body |-> format_results_to_text(results)])
              /\ pc' = "done"
              /\ UNCHANGED raised
         [] format = "json" /\ output # None ->
              /\ report' = Some([format |-> format, to |-> "file", body |-> ResultKeys])
              /\ pc' = "done"
              /\ UNCHANGED raised
         [] format = "json" /\ output = None ->
              /\ report' = Some([format |-> format,
                                 to |-> IF pretty THEN "stdout, indent=2" ELSE "stdout",
                                 body |-> ResultKeys])
              /\ pc' = "done"
              /\ UNCHANGED raised
         [] format = "html" /\ "to_html" \in ReportGeneratorMethods ->
              /\ report' = Some([format |-> format, to |-> "file", body |-> ResultKeys])
              /\ pc' = "done"
              /\ UNCHANGED raised
         [] format = "html" /\ "to_html" \notin ReportGeneratorMethods ->
              /\ raised' = Some("AttributeError")
              /\ pc' = "uncaught"
              /\ UNCHANGED report
         [] format = "pdf" ->
              /\ report' = Some([format |-> format,
                                 to |-> IF io_ok THEN "file" ELSE "error message",
                                 body |-> format_results_to_text(results)])
              /\ pc' = "done"
              /\ UNCHANGED raised
  /\ UNCHANGED <<args, html, max_check_links, checks, results, result, i, net, executed>>

Next ==
  \/ LinksExtract
  \/ ProbeInternal
  \/ ProbeInternalEnd
  \/ ProbeExternal
  \/ ProbeExternalEnd
  \/ LinksReturn
  \/ AnalysisStart
  \/ AnalysisBasic
  \/ AnalysisWordCount
  \/ AnalysisLinks
  \/ AnalysisImages
  \/ AnalysisSecurity
  \/ AnalysisPerformance
  \/ AnalysisReturn
  \/ MainFetch
  \/ MainReport

Spec == Init /\ [][Next]_vars
(***************************************************************************)
(* Positions of a run that the properties speak about.                     *)
(***************************************************************************)
\* analyze_links has built its result dict (line 100 is passed).
LinksClassified ==
  \/ pc \in {"probe_internal", "probe_external", "links_return"}
  \/ entry = "analyze_links" /\ pc = "done"
  \/ "links" \in DOMAIN results

\* analyze_links is right after line 100: the result dict is built and no
\* probe has been issued.
LinksBuilt == pc = "probe_internal" /\ i = 0

\* analyze_links is at its return statement (line 124): `result` is what
\* it returns, and nothing changes it afterwards.
LinksReturning == pc = "links_return"

\* From line 100 on, the two link lists and the count of the result dict
\* are never assigned again: what line 124 returns is what line 100 built.
ListsKept ==
  LinksClassified =>
    /\ result.total_links_on_page' = result.total_links_on_page
    /\ result.internal_links' = result.internal_links
    /\ result.external_links' = result.external_links

\* analyze_links is returning or has returned.
LinksReturned ==
  \/ pc = "links_return"
  \/ entry = "analyze_links" /\ pc = "done"
  \/ "links" \in DOMAIN results

\* run_full_analysis is at its return statement (line 225): `results` is
\* what it returns, and nothing changes it afterwards.
AnalysisReturning == pc = "rfa_return"

\* run_full_analysis is returning or has returned.
AnalysisComplete ==
  /\ entry # "analyze_links"
  /\ pc \in {"rfa_return", "main_report", "done"}
       \/ (pc = "uncaught" /\ raised = Some("AttributeError"))

\* The href values of the page, trimmed, in document order.
PageHrefs ==
  LET found == FindAllHref(Val(html).anchors)
  IN  [k \in 1..Len(found) |-> Strip(found[k])]

InternalLinks == Range(result.internal_links)

ExternalLinks == Range(result.external_links)

\* The probes issued for one of the two lists, in the order issued.
ProbesOf(field) == SelectSeq(net, LAMBDA e : e.call = field)

UrlsOf(probes) == [k \in 1..Len(probes) |-> probes[k].url]

\* The broken entries a sequence of probes gives: the probes that were not
\* live, in order, each with its status code.
BrokenOf(probes) ==
  LET failed == SelectSeq(probes, LAMBDA e : ~e.ok)
  IN  [k \in 1..Len(failed) |-> [url |-> failed[k].url, status |-> failed[k].code]]

NoDuplicates(seq) == \A a, b \in 1..Len(seq) : seq[a] = seq[b] => a = b

\* The names the caller wrote in the checks argument, as written.
WrittenNames == IF checks_arg.type = "str" THEN Split(checks_arg.value, ",") ELSE checks_arg.value

SixChecks == <<N_basic, N_wordcount, N_links, N_images, N_security, N_performance>>

BaseKeys == {"url", "timestamp", "checks_run"}

(***************************************************************************)
(* C1                                                                      *)
(***************************************************************************)
\* C1: the keys of the result of run_full_analysis are url, timestamp,
\* checks_run and the field of each of the six check names that occurs in
\* checks_run; a name is in checks_run exactly when the caller wrote it, up
\* to surrounding whitespace and letter case (all six when the argument is
\* empty); other names add no key; checks="links" gives only the links field.
C1_ResultKeys ==
  AnalysisReturning =>
    /\ DOMAIN results =
         BaseKeys \cup {FieldOf(n) : n \in Range(SixChecks) \cap Range(results["checks_run"])}
    /\ Truthy(checks_arg) =>
         LET written == {Lower(Strip(WrittenNames[k])) : k \in 1..Len(WrittenNames)}
         IN  \A n \in Range(SixChecks) :
               (n \in Range(results["checks_run"])) <=> (n \in written)
    /\ checks_arg = [type |-> "str", value |-> N_links] =>
         DOMAIN results = BaseKeys \cup {"links"}
    /\ checks_arg = [type |-> "str", value |-> <<" ","L","i","n","k","s",",","S","E","C","U","R","I","T","Y"," ">>] =>
         DOMAIN results = BaseKeys \cup {"links", "security"}

\* A run with checks=" Links,seo" has returned with the links field.
C1_Witness ==
  /\ AnalysisReturning
  /\ checks_arg = [type |-> "str", value |-> <<" ","L","i","n","k","s",",","s","e","o">>]
  /\ DOMAIN results = BaseKeys \cup {"links"}

(***************************************************************************)
(* C2                                                                      *)
(***************************************************************************)
\* C2: with checks None, "" or [], checks_run is basic, wordcount, links,
\* images, security, performance in that order, and all six checks run.
C2_DefaultSelection ==
  (entry # "analyze_links" /\ ~Truthy(checks_arg)) =>
    /\ "checks_run" \in DOMAIN results => results["checks_run"] = SixChecks
    /\ AnalysisComplete =>
         /\ executed = SixChecks
         /\ DOMAIN results = BaseKeys \cup {FieldOf(n) : n \in Range(SixChecks)}

\* A run with checks=[] has returned.
C2_Witness ==
  /\ AnalysisComplete
  /\ checks_arg = [type |-> "list", value |-> <<>>]
  /\ executed = SixChecks

(***************************************************************************)
(* C3                                                                      *)
(***************************************************************************)
\* C3 as claimed: an href beginning with http:// or https:// is in
\* internal_links and not in external_links when its host is the base
\* URL's host, and in external_links and not in internal_links otherwise.
C3_ByHost ==
  /\ [](LinksBuilt =>
          LET hrefs == PageHrefs
              int == InternalLinks
              ext == ExternalLinks
          IN  \A k \in 1..Len(hrefs) :
                IsAbsolute(hrefs[k]) =>
                  IF Hostname(hrefs[k]) = Hostname(base_url)
                    THEN hrefs[k] \in int /\ hrefs[k] \notin ext
                    ELSE hrefs[k] \in ext /\ hrefs[k] \notin int)
  /\ [][ListsKept]_vars

\* C3, amended: an href beginning with http:// or https:// is in
\* internal_links and not in external_links when its network location (the
\* netloc as written, port included) equals the base URL's; otherwise it is
\* in external_links, and in internal_links too only when a relative href
\* of the page resolves to it.
C3_ByNetloc ==
  /\ [](LinksBuilt =>
          LET hrefs == PageHrefs
              int == InternalLinks
              ext == ExternalLinks
          IN  \A k \in 1..Len(hrefs) :
                IsAbsolute(hrefs[k]) =>
                  IF Netloc(hrefs[k]) = Netloc(base_url)
                    THEN hrefs[k] \in int /\ hrefs[k] \notin ext
                    ELSE /\ hrefs[k] \in ext
                         /\ hrefs[k] \in int =>
                              \E j \in 1..Len(hrefs) :
                                /\ ~IsAbsolute(hrefs[j])
                                /\ ~IsIgnored(hrefs[j])
                                /\ UrlJoin(base_url, hrefs[j]) = hrefs[k])
  /\ [][ListsKept]_vars

\* A page at https://s.co/a/b with https://s.co/p (internal) and
\* https://s.co:443/p (same host, other netloc: external).
C3_Witness ==
  /\ LinksReturning
  /\ base_url = U_site
  /\ H_same \in InternalLinks
  /\ H_port \in ExternalLinks

(***************************************************************************)
(* C4                                                                      *)
(***************************************************************************)
\* C4: every href that is not ignored and does not begin with http:// or
\* https:// has its resolution against the base URL in internal_links,
\* whatever the host of that resolution.
C4_RelativeInternal ==
  /\ [](LinksBuilt =>
          LET hrefs == PageHrefs
              int == InternalLinks
          IN  \A k \in 1..Len(hrefs) :
                (~IsIgnored(hrefs[k]) /\ ~IsAbsolute(hrefs[k])) =>
                  UrlJoin(base_url, hrefs[k]) \in int)
  /\ [][ListsKept]_vars

\* A scheme-relative href whose resolution is on another host than the base
\* is in internal_links.
C4_Witness ==
  /\ LinksReturning
  /\ LET hrefs == PageHrefs
     IN  \E k \in 1..Len(hrefs) :
           /\ ~IsIgnored(hrefs[k])
           /\ ~IsAbsolute(hrefs[k])
           /\ Hostname(UrlJoin(base_url, hrefs[k])) # Hostname(base_url)
           /\ UrlJoin(base_url, hrefs[k]) \in InternalLinks

(***************************************************************************)
(* C5                                                                      *)
(***************************************************************************)
\* The anchors whose trimmed href starts with "#", "mailto:" or "javascript:".
IgnoredAnchors == {k \in 1..Len(PageHrefs) : IsIgnored(PageHrefs[k])}

\* What the non-ignored anchors of the page give: an href that begins with
\* http:// or https:// itself, any other href resolved against the base.
LinkTargets ==
  LET hrefs == PageHrefs
  IN  {IF IsAbsolute(hrefs[k]) THEN hrefs[k] ELSE UrlJoin(base_url, hrefs[k]) :
         k \in {j \in 1..Len(hrefs) : ~IsIgnored(hrefs[j])}}

\* C5: an anchor whose trimmed href starts with "#", "mailto:" or
\* "javascript:" is counted in total_links_on_page and gives no entry of
\* internal_links or external_links: every entry comes from another anchor,
\* and total_links_on_page >= |internal_links| + |external_links| + the
\* number of ignored anchors.
C5_IgnoredLinks ==
  /\ [](LinksBuilt =>
          LET hrefs == PageHrefs
              ignored == IgnoredAnchors
              links == InternalLinks \cup ExternalLinks
          IN  /\ result.total_links_on_page = Len(hrefs)
              /\ \A k \in ignored : hrefs[k] \notin links
              /\ \A u \in links : ~IsIgnored(u)
              /\ links \subseteq LinkTargets
              /\ result.total_links_on_page >=
                   Len(result.internal_links) + Len(result.external_links)
                     + Cardinality(ignored))
  /\ [][ListsKept]_vars

\* A page with an ignored anchor and a link: the count exceeds the two lists.
C5_Witness ==
  /\ LinksReturning
  /\ IgnoredAnchors # {}
  /\ Len(result.internal_links) + Len(result.external_links) >= 1
  /\ result.total_links_on_page >
       Len(result.internal_links) + Len(result.external_links)

(***************************************************************************)
(* C6                                                                      *)
(***************************************************************************)
\* C6: with a limit max_check_links that is a count (0 or more), at most
\* max_check_links probes are issued for internal_links and at
\* most max_check_links for external_links; once analyze_links has returned,
\* the number of probes of each list is the smaller of its length and
\* max_check_links, so a list of at most max_check_links URLs is probed
\* whole; no URL of a list is probed twice in that list's loop.
C6_ProbeBound ==
  LET pint == ProbesOf("internal_links")
      pext == ProbesOf("external_links")
  IN  /\ Len(pint) <= max_check_links
      /\ Len(pext) <= max_check_links
      /\ Len(pint) + Len(pext) <= 2 * max_check_links
      /\ NoDuplicates(UrlsOf(pint))
      /\ NoDuplicates(UrlsOf(pext))
      /\ Range(UrlsOf(pint)) \subseteq InternalLinks
      /\ Range(UrlsOf(pext)) \subseteq ExternalLinks
      /\ LinksReturned =>
           /\ Len(pint) = Min(Len(result.internal_links), max_check_links)
           /\ Len(pext) = Min(Len(result.external_links), max_check_links)
           /\ Len(result.internal_links) <= max_check_links =>
                Range(UrlsOf(pint)) = InternalLinks
           /\ Len(result.external_links) <= max_check_links =>
                Range(UrlsOf(pext)) = ExternalLinks

\* analyze_links returned from a page with more internal links than the
\* limit: one probe, which failed, and no second one.
C6_Witness ==
  /\ LinksReturned
  /\ max_check_links = 1
  /\ Len(result.internal_links) = 2
  /\ Len(ProbesOf("internal_links")) = 1
  /\ ~ProbesOf("internal_links")[1].ok

(***************************************************************************)
(* C7                                                                      *)
(***************************************************************************)
LinkProbes == SelectSeq(net, LAMBDA e : e.call \in {"internal_links", "external_links"})

\* C7: no exception leaves check_url; it reports live exactly when a
\* response came with a status code below 400, (not live, the code) for a
\* code of 400 or more, (not live, None) when the request failed; and after
\* a failed probe the rest of the list is still probed.
C7_ProbeOutcome ==
  LET probes == LinkProbes
  IN  /\ raised # Some("Exception")
      /\ \A k \in 1..Len(probes) :
           /\ ~probes[k].raised
           /\ probes[k].ok <=>
                (~probes[k].resp.raises /\ probes[k].resp.status_code < 400)
           /\ ~probes[k].resp.raises => probes[k].code = Some(probes[k].resp.status_code)
           /\ probes[k].resp.raises => probes[k].code = None
      /\ LinksReturned =>
           /\ Len(ProbesOf("internal_links"))
                = Min(Len(result.internal_links), max_check_links)
           /\ Len(ProbesOf("external_links"))
                = Min(Len(result.external_links), max_check_links)

\* The first internal probe failed without a response, the second got a
\* 400, and the external list was probed after them.
C7_Witness ==
  /\ LinksReturned
  /\ Len(ProbesOf("internal_links")) = 2
  /\ ProbesOf("internal_links")[1].resp.raises
  /\ ProbesOf("internal_links")[2].code = Some(400)
  /\ Len(ProbesOf("external_links")) = 0
  /\ Len(result.broken_internal) = 2

(***************************************************************************)
(* C8                                                                      *)
(***************************************************************************)
\* C8: the probed URLs of a list are its first entries, in list order, at
\* most max_check_links of them, and all of these once analyze_links has
\* returned; broken_internal (broken_external) holds exactly the probed
\* entries that were not live, each once with its probe's status code, in
\* the order of internal_links (external_links).
C8_BrokenLists ==
  LinksClassified =>
    LET pint == ProbesOf("internal_links")
        pext == ProbesOf("external_links")
    IN  /\ UrlsOf(pint) = Take(Take(result.internal_links, max_check_links), Len(pint))
        /\ UrlsOf(pext) = Take(Take(result.external_links, max_check_links), Len(pext))
        /\ result.broken_internal = BrokenOf(pint)
        /\ result.broken_external = BrokenOf(pext)
        /\ LinksReturned =>
             /\ UrlsOf(pint) = Take(result.internal_links, max_check_links)
             /\ UrlsOf(pext) = Take(result.external_links, max_check_links)

\* Two internal links, both probed and broken: a 400, then no response.
C8_Witness ==
  /\ LinksReturned
  /\ Len(result.internal_links) = 2
  /\ result.broken_internal =
       <<[url |-> result.internal_links[1], status |-> Some(400)],
         [url |-> result.internal_links[2], status |-> None]>>

(***************************************************************************)
(* C9                                                                      *)
(***************************************************************************)
\* main took the fetch for failed: fetch_page gave None or an empty text.
FetchFailed == html = None \/ Val(html).blank

\* C9: in a command line run, a failed fetch ends the run before any
\* analyzer is called, and after a fetch that gave a page no exception
\* leaves the run: the aggregator is called and the report step completes,
\* whatever the checks and the report format.
C9_OnlyFetchAborts ==
  (entry = "main" /\ pc # "main_fetch") =>
    IF FetchFailed
      THEN pc = "exit_1" /\ executed = <<>> /\ results = <<>>
      ELSE /\ pc \notin {"exit_1", "uncaught"}
           /\ raised = None
           /\ pc = "done" => ("checks_run" \in DOMAIN results /\ report # None)

(***************************************************************************)
(* C10                                                                     *)
(***************************************************************************)
SecurityFailed == \E k \in 1..Len(net) : net[k].call = "security" /\ net[k].resp.raises

PerformanceFailed == \E k \in 1..Len(net) : net[k].call = "performance" /\ net[k].resp.raises

\* The response of the GET a check issued.
ResponseOf(key) == net[CHOOSE k \in 1..Len(net) : net[k].call = key].resp

\* C10: a failed request of the security or of the performance check does
\* not leave run_full_analysis as an exception: the check's field is there
\* with error a string and the measured fields at their initial values,
\* and every other field of the result is what its own inputs give (the
\* page, the base URL, the outcome of its own requests).
C10_CheckFailure ==
  /\ raised # Some("Exception")
  /\ SecurityFailed =>
       /\ "security" \in DOMAIN results
       /\ results["security"].error # None
       /\ results["security"].status_code = None
       /\ results["security"].https = FALSE
       /\ results["security"].headers = <<>>
  /\ PerformanceFailed =>
       /\ "performance" \in DOMAIN results
       /\ results["performance"].error # None
       /\ results["performance"].status_code = None
       /\ results["performance"].time_to_first_byte = None
       /\ results["performance"].total_download = None
  /\ AnalysisReturning =>
       /\ DOMAIN results =
            BaseKeys \cup {FieldOf(n) : n \in Range(SixChecks) \cap Range(checks)}
       /\ "basic" \in DOMAIN results => results["basic"] = analyze_basic(Val(html))
       /\ "word_count" \in DOMAIN results =>
            results["word_count"] = analyze_word_count(Val(html))
       /\ "links" \in DOMAIN results => results["links"] = result
       /\ "images" \in DOMAIN results =>
            results["images"] = analyze_images(Val(html), base_url)
       /\ ("security" \in DOMAIN results /\ ~SecurityFailed) =>
            /\ results["security"].error = None
            /\ results["security"].status_code = Some(ResponseOf("security").status_code)
       /\ ("performance" \in DOMAIN results /\ ~PerformanceFailed) =>
            /\ results["performance"].error = None
            /\ results["performance"].status_code =
                 Some(ResponseOf("performance").status_code)

\* All six checks ran; the security request timed out and the performance
\* request got a 200.
C10_Witness ==
  /\ AnalysisReturning
  /\ executed = SixChecks
  /\ SecurityFailed
  /\ results["security"].error = Some("timed out")
  /\ ~PerformanceFailed
  /\ results["performance"].status_code = Some(200)
  /\ results["basic"].title = <<"A","b">>

(***************************************************************************)
(* C11                                                                     *)
(***************************************************************************)
\* The place of a check name in the canonical order.
Position(name) == CHOOSE k \in 1..Len(SixChecks) : SixChecks[k] = name

\* The places in `net` of the requests of the given calls.
RequestsOf(calls) == {k \in 1..Len(net) : net[k].call \in calls}

LinkCalls == {"internal_links", "external_links"}

\* analyze_links is running: its loop or one of its probe loops.
LinksRunning == pc \in {"links_extract", "probe_internal", "probe_external", "links_return"}

\* C11: in a run of run_full_analysis the analyzers called so far are
\* selected checks, in the order basic, wordcount, links, images, security,
\* performance, each at most once, whatever the order and the repetitions
\* of the names in the checks argument; once the run has returned they are
\* all the selected checks; while analyze_links runs it is the last one
\* called, and every link probe precedes the security and the performance
\* request, which are issued only after analyze_links has returned, the
\* security request before the performance request.
C11_SequentialOrder ==
  entry # "analyze_links" =>
    /\ \A k \in 1..Len(executed) :
         /\ executed[k] \in Range(SixChecks)
         /\ executed[k] \in Range(checks)
    /\ \A a, b \in 1..Len(executed) :
         a < b => Position(executed[a]) < Position(executed[b])
    /\ AnalysisComplete => Range(executed) = Range(SixChecks) \cap Range(checks)
    /\ LinksRunning => (executed # <<>> /\ executed[Len(executed)] = N_links)
    /\ \A a \in RequestsOf(LinkCalls), b \in RequestsOf({"security", "performance"}) :
         a < b
    /\ \A a \in RequestsOf({"security"}), b \in RequestsOf({"performance"}) : a < b
    /\ Cardinality(RequestsOf({"security"})) <= 1
    /\ Cardinality(RequestsOf({"performance"})) <= 1
    /\ (RequestsOf({"security", "performance"}) # {} /\ N_links \in Range(checks)) =>
         /\ "links" \in DOMAIN results
         /\ ~LinksRunning
         /\ Len(ProbesOf("internal_links"))
              = Min(Len(result.internal_links), max_check_links)
         /\ Len(ProbesOf("external_links"))
              = Min(Len(result.external_links), max_check_links)

\* A run with checks=["SECURITY ", " Links"] has returned: links ran before
\* security, and its probes were issued before the security request.
C11_Witness ==
  /\ AnalysisReturning
  /\ checks_arg = [type |-> "list",
                   value |-> <<<<"S","E","C","U","R","I","T","Y"," ">>,
                               <<" ","L","i","n","k","s">>>>]
  /\ executed = <<N_links, N_security>>
  /\ RequestsOf(LinkCalls) # {}
  /\ RequestsOf({"security"}) = {Len(net)}

(***************************************************************************)
(* C12                                                                     *)
(***************************************************************************)
\* The resolutions of the page's hrefs that are neither ignored nor begin
\* with http:// or https://.
ResolvedTargets ==
  LET hrefs == PageHrefs
  IN  {UrlJoin(base_url, hrefs[k]) :
         k \in {j \in 1..Len(hrefs) : ~IsIgnored(hrefs[j]) /\ ~IsAbsolute(hrefs[j])}}

\* The page's hrefs that begin with http:// or https://, by whether their
\* network location is the base URL's.
AbsoluteTargets(same) ==
  LET hrefs == PageHrefs
  IN  {hrefs[k] :
         k \in {j \in 1..Len(hrefs) :
                  /\ ~IsIgnored(hrefs[j])
                  /\ IsAbsolute(hrefs[j])
                  /\ (Netloc(hrefs[j]) = Netloc(base_url)) = same}}

\* C12 as claimed: internal_links and external_links each hold no URL
\* twice, and no URL is in both.
C12_Disjoint ==
  LinksClassified =>
    /\ NoDuplicates(result.internal_links)
    /\ NoDuplicates(result.external_links)
    /\ InternalLinks \cap ExternalLinks = {}

\* C12, amended: internal_links and external_links each hold no URL twice
\* and together hold the target of every anchor that is not ignored:
\* internal_links the resolved relative hrefs and the absolute hrefs at the
\* base URL's network location, external_links the other absolute hrefs.  A
\* URL is in both exactly when it is an absolute href at another network
\* location and a relative href of the page resolves to it.
C12_Partition ==
  /\ [](LinksClassified =>
          /\ NoDuplicates(result.internal_links)
          /\ NoDuplicates(result.external_links))
  /\ [](LinksBuilt =>
          /\ InternalLinks = ResolvedTargets \cup AbsoluteTargets(TRUE)
          /\ ExternalLinks = AbsoluteTargets(FALSE)
          /\ InternalLinks \cap ExternalLinks = ResolvedTargets \cap AbsoluteTargets(FALSE))
  /\ [][ListsKept]_vars

\* A page at https://s.co/a/b with //t.co/x and https://t.co/x: the URL
\* https://t.co/x is returned in internal_links and in external_links.
C12_Witness ==
  /\ LinksReturning
  /\ base_url = U_site
  /\ Val(html).anchors = <<Some(H_schemerel), Some(H_other)>>
  /\ result.internal_links = <<Strip(H_other)>>
  /\ result.external_links = <<Strip(H_other)>>
====
